---- MODULE Spec2Model ----
(***************************************************************************)
(* A model of the song-request plugin (class songRequest of                *)
(* src/utils/trans-strategy.js): the file-readiness watcher, the delivery  *)
(* of one track (credential probe, URL resolution, fallback, card / file   *)
(* transfer, cleanup) and the keyword search with its per-conversation     *)
(* session store.                                                          *)
(*                                                                         *)
(* Remote collaborators (catalog API, public resolver, host runtime,       *)
(* renderer, filesystem writer) are inputs: every response an action       *)
(* handles is drawn from a small set with \E.  A rejected promise that no  *)
(* handler catches ends the task in the state "rejected".                  *)
(***************************************************************************)
EXTENDS Integers, Sequences, FiniteSets, TLC

VARIABLES
    \* ---- persisted state and configuration ----
    songInfo,         \* REDIS_YUNZAI_SONGINFO: sequence of [group_id, data]
    isOverseaFlag,    \* REDIS_YUNZAI_ISOVERSEA: "absent", or the stored os value
    cloudSongList,    \* REDIS_YUNZAI_CLOUDSONGLIST: the personal-library snapshot
    cacheWriter,      \* history: what wrote the snapshot last ("clean", "fetch")
    songRequestMaxList, \* this.songRequestMaxList (configuration)
    \* ---- pickSong '#diange <keyword>': concurrent handler tasks ----
    task,             \* per task: position and the handler's local variables
    lastWriter,       \* history: the task whose redisSetKey(SONGINFO) ran last
    listened,         \* history: the '#tingN' command issued, and after which search
    isSendVocal,      \* this.isSendVocal (configuration)
    FileSuffix,       \* let FileSuffix (module-level)
    \* ---- one delivery: pickSong '#听N' / playSong, checkCooike, neteasePlay ----
    pc,               \* where the delivery is
    cmd,              \* "none", "listen" or "play"
    selectedSong,     \* songInfo[pickNumber] handed to neteasePlay, or NoSong
    cookieType,       \* checkCooike's second argument
    statusResp,       \* history: the /login/status response the probe saw
    isCkExpired,      \* checkCooike's result: "unset", "true", "false", "raise"
    cookieToUse,      \* neteasePlay's const cookieToUse
    respUrl,          \* resp.data.data?.[0]?.url || null of /song/url/v1
    url,              \* neteasePlay's let url
    musicExt,         \* resp.data.data?.[0]?.type
    AudioLevel,       \* translateToChinese(resp.data.data?.[0]?.level)
    cardSentSuccessfully,
    fileOnDisk,       \* the file downloadAudio wrote is still on disk
    events,           \* history: requests issued and host calls made, in order
    \* ---- waitForFile (one call) ----
    timeoutSeconds,   \* the call's third argument
    attempts,         \* let attempts
    lastSize,         \* let lastSize
    stableChecks,     \* let stableChecks
    waitResult,       \* "polling", or the value returned: "true" / "false"
    observed,         \* history: what each poll saw (Absent, StatError or a size)
    waitReplies,      \* number of e.reply calls made by waitForFile
    \* ---- region selection: isOverseasServer / pickApi ----
    useLocalNeteaseAPI, \* this.useLocalNeteaseAPI (configuration)
    apiFirst,         \* history: the first pickApi call of the behaviour
    apiLast,          \* history: the most recent pickApi call
    \* ---- personal library: uploads and refreshes ----
    uploaded,         \* tracks POST /cloud has stored in the remote library
    up,               \* the upload command: position and local variables
    refresh,          \* per songCloudUpdate run: position and local variables
    \* ---- several deliveries, next to each other and to an upload ----
    delivery,         \* per neteasePlay call: position, conversation, track
    disk              \* the files downloadAudio left: [group, id, ext]

waitVars == <<timeoutSeconds, attempts, lastSize, stableChecks, waitResult,
              observed, waitReplies>>

storeVars == <<songInfo, isOverseaFlag, cloudSongList, cacheWriter, songRequestMaxList>>

searchVars == <<task, lastWriter, listened>>

playVars == <<isSendVocal, FileSuffix, pc, cmd, selectedSong, cookieType,
              statusResp, isCkExpired, cookieToUse, respUrl, url, musicExt, AudioLevel,
              cardSentSuccessfully, fileOnDisk, events>>

regionVars == <<useLocalNeteaseAPI, apiFirst, apiLast>>

cloudVars == <<uploaded, up, refresh>>

suffixVars == <<delivery, disk>>

vars == <<storeVars, searchVars, playVars, waitVars, regionVars, cloudVars,
          suffixVars>>

(***************************************************************************)
(* Bounds of the model.                                                    *)
(***************************************************************************)
MaxTimeoutSeconds == 5
MaxFileSize == 2
MaxListSize == 2

(***************************************************************************)
(* The world the plugin talks to: a small catalog, the account's personal  *)
(* (cloud) library, and the conversations.  Titles and artists are         *)
(* sequences of characters so that String.includes is a real substring     *)
(* test.                                                                   *)
(***************************************************************************)
Groups == {"g1", "g2"}

\* duration: 'yunpan' (the marker getCloudSong gives a personal-library track)
CloudMark == "cloud"
\* singerName: artist || 'miaomiao~'
DefaultSinger == <<"m">>
\* the placeholder album picture pickSong replaces by 'def'
DefaultPic == "109951169484091680.jpg"

Catalog ==
    << [id |-> 1, name |-> <<"a">>, artist |-> <<"x">>, duration |-> 185000,
        picUrl |-> "p1"],
       [id |-> 2, name |-> <<"a", "b">>, artist |-> <<"y">>, duration |-> 61000,
        picUrl |-> DefaultPic],
       [id |-> 3, name |-> <<"b">>, artist |-> <<"a">>, duration |-> 240000,
        picUrl |-> "p3"] >>

\* /user/cloud: the account's personal library on the remote service.
RemoteCloud ==
    << [songId |-> 1, songName |-> <<"a", "a">>, artist |-> <<>>],
       [songId |-> 4, songName |-> <<"b">>, artist |-> <<"y">>] >>

\* The track an upload command sends to POST /cloud.
NewTrack == [songId |-> 5, songName |-> <<"c">>, artist |-> <<"z">>]

\* Tracks the account uploaded earlier, enough to fill pages of the listing.
BulkTracks(n) ==
    [i \in 1 .. n |-> [songId |-> 100 + i, songName |-> <<"m">>,
                       artist |-> <<"n">>]]

\* What GET /user/cloud lists: the library with the tracks uploaded so far.
Library == RemoteCloud \o uploaded

\* formatTime of ../utils/other.js: milliseconds to a "m:s" label.
formatTime(ms) == ToString(ms \div 60000) \o ":" \o ToString((ms \div 1000) % 60)

\* An entry pickSong builds from a /search result (info).
CatalogEntry(info) ==
    [id |-> info.id, songName |-> info.name, singerName |-> info.artist,
     duration |-> formatTime(info.duration), cover |-> "none"]

\* An entry getCloudSong builds from a /user/cloud record.
CloudEntry(c) ==
    [id |-> c.songId, songName |-> c.songName,
     singerName |-> IF c.artist = <<>> THEN DefaultSinger ELSE c.artist,
     duration |-> CloudMark, cover |-> "none"]

NoSong == [id |-> 0, songName |-> <<>>, singerName |-> <<>>,
           duration |-> "none", cover |-> "none"]

\* songInfo.findIndex(item => item.group_id === e.group_id); 0 stands for -1.
FindGroupIndex(list, g) ==
    IF \E i \in 1 .. Len(list) : list[i].group_id = g
    THEN CHOOSE i \in 1 .. Len(list) :
            /\ list[i].group_id = g
            /\ \A j \in 1 .. i - 1 : list[j].group_id # g
    ELSE 0

(***************************************************************************)
(* Region selection: isOverseasServer / pickApi.                           *)
(***************************************************************************)
\* isOverseasServer: with no flag stored, store {os: false}.
OverseaFlagAfterPickApi(flag) == IF flag = "absent" THEN "false" ELSE flag

\* isOverseasServer's return value: true on the call that found no flag,
\* otherwise the stored os value.
isOverseasServer(flag) == IF flag = "absent" THEN "true" ELSE flag

\* if (!(await redisExistKey(REDIS_YUNZAI_ISOVERSEA))) redisSetKey(...)
WritesFlag(flag) == flag = "absent"

\* pickApi: the self-hosted server when useLocalNeteaseAPI, otherwise
\* NETEASE_SONG_DOWNLOAD for an overseas deployment and NETEASE_API_CN else.
pickApiIgnoresLocal(isOversea, useLocal) ==
    IF isOversea = "true" THEN "NETEASE_SONG_DOWNLOAD" ELSE "NETEASE_API_CN"
pickApi(isOversea, useLocal) ==
    IF useLocal THEN "neteaseCloudAPIServer"
    ELSE IF isOversea = "true" THEN "NETEASE_SONG_DOWNLOAD" ELSE "NETEASE_API_CN"

NoCall == [found |-> "none", oversea |-> "none", url |-> "none", wrote |-> FALSE]

\* One pickApi call made with the flag in state flag: what it found, what
\* isOverseasServer returned, the base URL returned, whether it wrote.
PickApiCall(flag) ==
    [found |-> flag,
     oversea |-> isOverseasServer(flag),
     url |-> pickApi(isOverseasServer(flag), useLocalNeteaseAPI),
     wrote |-> WritesFlag(flag)]

\* The flag after a call: what isOverseasServer stores when it writes.
FlagAfter(flag) == IF WritesFlag(flag) THEN OverseaFlagAfterPickApi(flag) ELSE flag

\* await this.pickApi(), once or (pickSong followed by a fetching
\* getCloudSong) twice within one step of a handler.
RegionStep(twice) ==
    LET f1 == FlagAfter(isOverseaFlag)
    IN /\ isOverseaFlag' = IF twice THEN FlagAfter(f1) ELSE f1
       /\ apiFirst' = IF apiFirst = NoCall THEN PickApiCall(isOverseaFlag)
                      ELSE apiFirst
       /\ apiLast' = IF twice THEN PickApiCall(f1) ELSE PickApiCall(isOverseaFlag)
       /\ UNCHANGED useLocalNeteaseAPI

RegionIdle ==
    /\ useLocalNeteaseAPI = FALSE
    /\ apiFirst = NoCall
    /\ apiLast = NoCall

(***************************************************************************)
(* checkCooike                                                             *)
(***************************************************************************)
\* What GET /login/status can answer: the request fails; the payload has no
\* data object; profile is null; profile is an empty object; a full profile.
StatusResponses == {"fail", "malformed", "null", "empty", "profile"}

\* The value checkCooike returns, or "raise" when its promise rejects.
\*   res.data.data.profile                 throws on a payload without data
\*   res.data.data.profile.userId ('song') throws on a null profile
\*   if (userInfo)                         an empty object is truthy
checkCooike(kind, resp) ==
    CASE resp = "fail" -> "raise"
      [] resp = "malformed" -> "raise"
      [] resp = "null" -> IF kind = "song" THEN "raise" ELSE "false"
      [] OTHER -> "true"

(***************************************************************************)
(* Delivery: pickSong '#tingN' / playSong, then neteasePlay.               *)
(***************************************************************************)
\* pickSong: checkCooike(statusUrl, isCloudSong ? 'cloud' : 'song')
ProbeKind(isCloudSong) == IF isCloudSong THEN "cloud" ELSE "song"

\* neteasePlay: isCloudSong ? this.neteaseCloudCookie : this.neteaseSongCookie
CookieToUseAlwaysSong(isCloudSong) == "song"
CookieToUse(isCloudSong) == IF isCloudSong THEN "cloud" ELSE "song"

\* if (!isCkExpired || url == null)
UseFallback(ckExpired, u) == ckExpired = "false" \/ u = "null"

\* if (!cardSentSuccessfully): the raw transfer and the removal are inside it
SendsRawFileAlways(cardOk) == TRUE
SendsRawFile(cardOk) == ~cardOk

\* try { upload; record } finally { checkAndRemoveFile }: removed on a throw too
RemovesAfterRawOnlyOnSuccess(ok) == ok
RemovesAfterRaw(ok) == TRUE

\* if (musicExt != 'mp4' && this.isSendVocal)
SendsVoice(ext, vocal) == ext # "mp4" /\ vocal

Ev(what, arg) == <<what, arg>>

\* The quality tiers /song/url/v1 answers with (level).
Levels == {"lossless", "dolby"}

\* translationDict[word] || word; the names stand for the Chinese ones
\* ('dolby': the name line 939 compares with).
translateToChinese(word) ==
    CASE word = "lossless" -> "zh-lossless"
      [] word = "dolby" -> "zh-dolby"
      [] OTHER -> word

\* '(the Dolby download is an MP4 file, encoded as AC-4, ...)'
DolbyCaveat == " (MP4, AC-4)"

\* let audioInfo = AudioLevel; if (AudioLevel == dolby) audioInfo += caveat
audioInfo(level) ==
    IF level = translateToChinese("dolby") THEN level \o DolbyCaveat ELSE level

\* The quality label of the card that is replied: on the direct path the
\* last element of musicInfo.musicType, which is typelist.push(AudioLevel);
\* musicTempApi drops that element (musicType.slice(0, -1)).
AnnouncedLabel(path, level) == IF path = "direct" THEN level ELSE "none"

PlayIdle ==
    /\ isSendVocal = FALSE
    /\ FileSuffix = "flac"
    /\ pc = "idle"
    /\ cmd = "none"
    /\ selectedSong = NoSong
    /\ cookieType = "none"
    /\ statusResp = "none"
    /\ isCkExpired = "unset"
    /\ cookieToUse = "none"
    /\ respUrl = "unset"
    /\ url = "unset"
    /\ musicExt = "unset"
    /\ AudioLevel = "unset"
    /\ cardSentSuccessfully = FALSE
    /\ fileOnDisk = FALSE
    /\ events = <<>>

\* Session stores a delivery can start from: what earlier searches left.
PlayStores ==
    { << [group_id |-> "g1", data |-> <<CloudEntry(RemoteCloud[1])>>] >>,
      << [group_id |-> "g2", data |-> <<CatalogEntry(Catalog[3])>>],
         [group_id |-> "g1",
          data |-> <<CloudEntry(RemoteCloud[2]), CatalogEntry(Catalog[2])>>] >> }

PlayInit ==
    /\ songInfo \in PlayStores
    /\ isOverseaFlag = "absent"
    /\ cloudSongList = <<>>
    /\ cacheWriter = "none"
    /\ songRequestMaxList = MaxListSize
    /\ isSendVocal \in BOOLEAN
    /\ FileSuffix = "flac"
    /\ pc = "idle"
    /\ cmd = "none"
    /\ selectedSong = NoSong
    /\ cookieType = "none"
    /\ statusResp = "none"
    /\ isCkExpired = "unset"
    /\ cookieToUse = "none"
    /\ respUrl = "unset"
    /\ url = "unset"
    /\ musicExt = "unset"
    /\ AudioLevel = "unset"
    /\ cardSentSuccessfully = FALSE
    /\ fileOnDisk = FALSE
    /\ events = <<>>

\* pickSong, the '#tingN' branch up to the probe request: pickApi, read the
\* store, find the conversation's entry, take data[N-1].  A missing entry or
\* an ordinal past the list throws (songInfo[-1].data, undefined.id).
ListenResolve(g, n) ==
    LET saveId == FindGroupIndex(songInfo, g)
        found == saveId # 0 /\ n <= Len(songInfo[saveId].data)
        song == IF found THEN songInfo[saveId].data[n] ELSE NoSong
        isCloudSong == song.duration = CloudMark
    IN /\ RegionStep(FALSE)
       /\ cmd' = "listen"
       /\ selectedSong' = song
       /\ statusResp' = "none"
       /\ isCkExpired' = "unset"
       /\ cookieToUse' = "none"
       /\ respUrl' = "unset"
       /\ url' = "unset"
       /\ musicExt' = "unset"
       /\ AudioLevel' = "unset"
       /\ cardSentSuccessfully' = FALSE
       /\ fileOnDisk' = FALSE
       /\ IF found
          THEN /\ cookieType' = ProbeKind(isCloudSong)
               /\ events' = <<Ev("login/status", ProbeKind(isCloudSong))>>
               /\ pc' = "probe"
          ELSE /\ cookieType' = "none"
               /\ events' = <<>>
               /\ pc' = "rejected"
       /\ UNCHANGED <<songInfo, cloudSongList, cacheWriter, songRequestMaxList, isSendVocal,
                      FileSuffix>>

Listen ==
    /\ pc = "idle"
    /\ \E g \in Groups, n \in 1 .. MaxListSize : ListenResolve(g, n)
    /\ UNCHANGED <<waitVars, searchVars>>
    /\ UNCHANGED cloudVars
    /\ UNCHANGED suffixVars

\* playSong up to the /search request (limit=1).
PlayStart ==
    /\ pc = "idle"
    /\ RegionStep(FALSE)
    /\ cmd' = "play"
    /\ events' = <<Ev("search", "none")>>
    /\ pc' = "psearch"
    /\ UNCHANGED <<songInfo, cloudSongList, cacheWriter, songRequestMaxList, isSendVocal,
                   FileSuffix, selectedSong, cookieType,
                   statusResp, isCkExpired, cookieToUse, respUrl, url, musicExt, AudioLevel,
                   cardSentSuccessfully, fileOnDisk, waitVars, searchVars>>
    /\ UNCHANGED cloudVars
    /\ UNCHANGED suffixVars

\* playSong: the /search response.  "fail": the request or res.data.result
\* fails; "absent": no songs key; "empty": songs is []; "one": one song.
PlaySearchResponse ==
    /\ pc = "psearch"
    /\ \E r \in {"fail", "absent", "empty", "one"}, i \in 1 .. Len(Catalog) :
          CASE r = "fail" ->
                  /\ pc' = "rejected"
                  /\ UNCHANGED <<selectedSong, events>>
            [] r = "absent" ->
                  /\ pc' = "done"
                  /\ events' = Append(events, Ev("reply", "notfound"))
                  /\ UNCHANGED selectedSong
            [] r = "empty" ->
                  /\ pc' = "pdetail"
                  /\ events' = Append(events, Ev("song/detail", "none"))
                  /\ UNCHANGED selectedSong
            [] OTHER ->
                  /\ pc' = "pdetail"
                  /\ selectedSong' = CatalogEntry(Catalog[i])
                  /\ events' = Append(events, Ev("song/detail", "none"))
    /\ UNCHANGED <<storeVars, isSendVocal, FileSuffix, cmd, cookieType,
                   statusResp, isCkExpired, cookieToUse, respUrl, url, musicExt, AudioLevel,
                   cardSentSuccessfully, fileOnDisk, waitVars, searchVars>>
    /\ UNCHANGED <<regionVars, cloudVars>>
    /\ UNCHANGED suffixVars

\* playSong: the /song/detail response; then songInfo[0].id (throws on an
\* empty list) and the probe with the 'song' credential.
PlayDetailResponse ==
    /\ pc = "pdetail"
    /\ \E ok \in BOOLEAN :
          IF ok /\ selectedSong # NoSong
          THEN /\ selectedSong' = [selectedSong EXCEPT !.cover = "url"]
               /\ cookieType' = "song"
               /\ events' = Append(events, Ev("login/status", "song"))
               /\ pc' = "probe"
          ELSE /\ pc' = "rejected"
               /\ UNCHANGED <<selectedSong, cookieType, events>>
    /\ UNCHANGED <<storeVars, isSendVocal, FileSuffix, cmd, statusResp,
                   isCkExpired, cookieToUse, respUrl, url, musicExt, AudioLevel,
                   cardSentSuccessfully, fileOnDisk, waitVars, searchVars>>
    /\ UNCHANGED <<regionVars, cloudVars>>
    /\ UNCHANGED suffixVars

\* checkCooike answers; the handler then calls neteasePlay, which picks
\* cookieToUse and issues GET /song/url/v1 with it.
ProbeResponse ==
    /\ pc = "probe"
    /\ \E r \in StatusResponses :
          LET res == checkCooike(cookieType, r)
              isCloudSong == cmd = "listen" /\ selectedSong.duration = CloudMark
          IN /\ statusResp' = r
             /\ IF res = "raise"
                THEN /\ isCkExpired' = "raise"
                     /\ pc' = "rejected"
                     /\ UNCHANGED <<cookieToUse, events>>
                ELSE /\ isCkExpired' = res
                     /\ cookieToUse' = CookieToUse(isCloudSong)
                     /\ events' = Append(events,
                                         Ev("song/url", CookieToUse(isCloudSong)))
                     /\ pc' = "url"
    /\ UNCHANGED <<storeVars, isSendVocal, FileSuffix, cmd, selectedSong,
                   cookieType, respUrl, url, musicExt, AudioLevel, cardSentSuccessfully,
                   fileOnDisk, waitVars, searchVars>>
    /\ UNCHANGED <<regionVars, cloudVars>>
    /\ UNCHANGED suffixVars

\* neteasePlay: the /song/url/v1 response.  "fail": the request is rejected
\* (no handler); "nodata": data is empty (url null, type undefined);
\* "nullurl": an entry whose url is null; "ok": an entry with a url.
UrlResponse ==
    /\ pc = "url"
    /\ \E r \in {"fail", "nodata", "nullurl", "ok"}, ext \in {"flac", "mp4"},
          level \in Levels :
          IF r = "fail"
          THEN /\ pc' = "rejected"
               /\ UNCHANGED <<respUrl, url, musicExt, AudioLevel, events>>
          ELSE /\ respUrl' = (IF r = "ok" THEN "primary" ELSE "null")
               /\ url' = (IF r = "ok" THEN "primary" ELSE "null")
               /\ musicExt' = (IF r = "nodata" THEN "undefined" ELSE ext)
               /\ AudioLevel' = translateToChinese(IF r = "nodata" THEN "undefined"
                                                       ELSE level)
               /\ events' = Append(events, Ev("song/wiki", cookieToUse))
               /\ pc' = "wiki"
    /\ UNCHANGED <<storeVars, isSendVocal, FileSuffix, cmd, selectedSong,
                   cookieType, statusResp, isCkExpired, cookieToUse,
                   cardSentSuccessfully, fileOnDisk, waitVars, searchVars>>
    /\ UNCHANGED <<regionVars, cloudVars>>
    /\ UNCHANGED suffixVars

\* neteasePlay: the /song/wiki/summary response.  "fail": the request is
\* rejected; "shallow": creatives[0] exists but a deeper field is missing
\* (a TypeError in the .then); "nocreatives": blocks[1] has no creatives;
\* "full": every field is there.  Then the fallback decision.
WikiResponse ==
    /\ pc = "wiki"
    /\ \E r \in {"fail", "shallow", "nocreatives", "full"} :
          IF r \in {"fail", "shallow"}
          THEN /\ pc' = "rejected"
               /\ UNCHANGED events
          ELSE IF UseFallback(isCkExpired, url)
               THEN /\ events' = Append(events, Ev("musicTempApi", "none"))
                    /\ pc' = "fallback"
               ELSE /\ events' = Append(events, Ev("render", "direct"))
                    /\ pc' = "render"
    /\ UNCHANGED <<storeVars, isSendVocal, FileSuffix, cmd, selectedSong,
                   cookieType, statusResp, isCkExpired, cookieToUse, respUrl,
                   url, musicExt, AudioLevel, cardSentSuccessfully, fileOnDisk, waitVars, searchVars>>
    /\ UNCHANGED <<regionVars, cloudVars>>
    /\ UNCHANGED suffixVars

\* musicTempApi: the public resolver answers.  "fail": the request is
\* rejected; "nourl": no music_url in the answer; "ok": a music_url.
FallbackResponse ==
    /\ pc = "fallback"
    /\ \E r \in {"fail", "nourl", "ok"} :
          IF r = "fail"
          THEN /\ pc' = "rejected"
               /\ UNCHANGED <<url, events>>
          ELSE /\ url' = (IF r = "ok" THEN "fallback" ELSE "undefined")
               /\ events' = Append(events, Ev("render", "fallback"))
               /\ pc' = "render"
    /\ UNCHANGED <<storeVars, isSendVocal, FileSuffix, cmd, selectedSong,
                   cookieType, statusResp, isCkExpired, cookieToUse, respUrl,
                   musicExt, AudioLevel, cardSentSuccessfully, fileOnDisk, waitVars, searchVars>>
    /\ UNCHANGED <<regionVars, cloudVars>>
    /\ UNCHANGED suffixVars

\* getData + puppeteer.screenshot, e.reply(img); FileSuffix = musicExt; then
\* sendMusicCard is called.
RenderResult ==
    /\ pc = "render"
    /\ \E ok \in BOOLEAN :
          IF ok
          THEN /\ FileSuffix' = musicExt
               /\ events' = Append(Append(events,
                                Ev("reply", AnnouncedLabel(events[Len(events)][2],
                                                           AudioLevel))),
                                   Ev("sendMusicCard", "call"))
               /\ pc' = "card"
          ELSE /\ pc' = "rejected"
               /\ UNCHANGED <<FileSuffix, events>>
    /\ UNCHANGED <<storeVars, isSendVocal, cmd, selectedSong, cookieType,
                   statusResp, isCkExpired, cookieToUse, respUrl, url, musicExt, AudioLevel,
                   cardSentSuccessfully, fileOnDisk, waitVars, searchVars>>
    /\ UNCHANGED <<regionVars, cloudVars>>
    /\ UNCHANGED suffixVars

\* sendMusicCard settles (its failure is caught and logged); downloadAudio is
\* called with url.
CardResult ==
    /\ pc = "card"
    /\ \E ok \in BOOLEAN :
          /\ cardSentSuccessfully' = ok
          /\ events' = Append(Append(events,
                                     Ev("card", IF ok THEN "ok" ELSE "fail")),
                              Ev("downloadAudio", url))
    /\ pc' = "download"
    /\ UNCHANGED <<storeVars, isSendVocal, FileSuffix, cmd, selectedSong,
                   cookieType, statusResp, isCkExpired, cookieToUse, respUrl,
                   url, musicExt, AudioLevel, fileOnDisk, waitVars, searchVars>>
    /\ UNCHANGED <<regionVars, cloudVars>>
    /\ UNCHANGED suffixVars

\* downloadAudio settles: .catch logs a failure; .then sends the raw file
\* when the card was not sent.  Without a url the download cannot succeed.
DownloadResult ==
    /\ pc = "download"
    /\ \E ok \in BOOLEAN :
          IF ok /\ url \in {"primary", "fallback"}
          THEN /\ fileOnDisk' = TRUE
               /\ IF SendsRawFile(cardSentSuccessfully)
                  THEN /\ events' = Append(Append(events, Ev("downloaded", "ok")),
                                           Ev("uploadGroupFile", "call"))
                       /\ pc' = "sendfile"
                  ELSE /\ events' = Append(events, Ev("downloaded", "ok"))
                       /\ pc' = "done"
          ELSE /\ events' = Append(events, Ev("downloaded", "fail"))
               /\ pc' = "done"
               /\ UNCHANGED fileOnDisk
    /\ UNCHANGED <<storeVars, isSendVocal, FileSuffix, cmd, selectedSong,
                   cookieType, statusResp, isCkExpired, cookieToUse, respUrl,
                   url, musicExt, AudioLevel, cardSentSuccessfully, waitVars, searchVars>>
    /\ UNCHANGED <<regionVars, cloudVars>>
    /\ UNCHANGED suffixVars

\* uploadGroupFile settles; on success the voice clip follows when enabled;
\* the finally block removes the file.
SendFileResult ==
    /\ pc = "sendfile"
    /\ \E ok \in BOOLEAN :
          IF ok /\ SendsVoice(musicExt, isSendVocal)
          THEN /\ events' = Append(Append(events, Ev("file", "ok")),
                                   Ev("record", "call"))
               /\ pc' = "voice"
               /\ UNCHANGED fileOnDisk
          ELSE /\ events' = Append(events, Ev("file", IF ok THEN "ok" ELSE "fail"))
               /\ fileOnDisk' = (fileOnDisk /\ ~RemovesAfterRaw(ok))
               /\ pc' = "done"
    /\ UNCHANGED <<storeVars, isSendVocal, FileSuffix, cmd, selectedSong,
                   cookieType, statusResp, isCkExpired, cookieToUse, respUrl,
                   url, musicExt, AudioLevel, cardSentSuccessfully, waitVars, searchVars>>
    /\ UNCHANGED <<regionVars, cloudVars>>
    /\ UNCHANGED suffixVars

\* e.reply(segment.record(path)) settles; the finally block removes the file.
VoiceResult ==
    /\ pc = "voice"
    /\ \E ok \in BOOLEAN :
          /\ events' = Append(events, Ev("voice", IF ok THEN "ok" ELSE "fail"))
          /\ fileOnDisk' = (fileOnDisk /\ ~RemovesAfterRaw(ok))
    /\ pc' = "done"
    /\ UNCHANGED <<storeVars, isSendVocal, FileSuffix, cmd, selectedSong,
                   cookieType, statusResp, isCkExpired, cookieToUse, respUrl,
                   url, musicExt, AudioLevel, cardSentSuccessfully, waitVars, searchVars>>
    /\ UNCHANGED <<regionVars, cloudVars>>
    /\ UNCHANGED suffixVars

PlayNext ==
    \/ Listen
    \/ PlayStart
    \/ PlaySearchResponse
    \/ PlayDetailResponse
    \/ ProbeResponse
    \/ UrlResponse
    \/ WikiResponse
    \/ FallbackResponse
    \/ RenderResult
    \/ CardResult
    \/ DownloadResult
    \/ SendFileResult
    \/ VoiceResult

(***************************************************************************)
(* pickSong '#diange <keyword>': search, merge, session store.             *)
(* Each command runs as its own task; tasks interleave at every await.     *)
(***************************************************************************)
Tasks == {"t1", "t2"}

Keywords == {<<"a">>, <<"b">>, <<"c">>}

\* String.prototype.includes
Includes(s, k) ==
    \E i \in 1 .. Len(s) - Len(k) + 1 : SubSeq(s, i, i + Len(k) - 1) = k

\* songName.includes(kw) || singerName.includes(kw) || songName == kw || ...
MatchesKeyword(entry, kw) ==
    \/ Includes(entry.songName, kw)
    \/ Includes(entry.singerName, kw)
    \/ entry.songName = kw
    \/ entry.singerName = kw

\* Array.prototype.filter
FilterSeq(list, kw) ==
    SelectSeq(list, LAMBDA entry : MatchesKeyword(entry, kw))

\* songListCount = matched >= max ? max : matched
SongListCount(matched, max) == IF matched >= max THEN max ELSE matched

\* searchCount = this.songRequestMaxList - songListCount
SearchCountWholeList(max, count) == max
SearchCount(max, count) == max - count

\* const limit = 100 (getCloudSong's page size)
CloudPageLimit == 100

\* One page of GET /user/cloud?limit=&offset=
CloudPage(offset) ==
    [data |-> SubSeq(Library, offset + 1,
                     IF offset + CloudPageLimit < Len(Library)
                     THEN offset + CloudPageLimit ELSE Len(Library)),
     hasMore |-> offset + CloudPageLimit < Len(Library)]

\* res.data.data.map(...): entries of one page
CloudEntries(page) == [i \in 1 .. Len(page) |-> CloudEntry(page[i])]

\* What the catalog ranks for a keyword (GET /search): the songs whose title
\* or artist contains it, in catalog order.
RECURSIVE CatalogMatches(_, _)
CatalogMatches(songs, kw) ==
    IF songs = <<>> THEN <<>>
    ELSE (IF Includes(Head(songs).name, kw) \/ Includes(Head(songs).artist, kw)
          THEN <<Head(songs)>> ELSE <<>>)
             \o CatalogMatches(Tail(songs), kw)

\* for (const info of res.data.result.songs) musicDate.data.push({...})
RECURSIVE CatalogEntries(_)
CatalogEntries(songs) ==
    IF songs = <<>> THEN <<>>
    ELSE <<CatalogEntry(Head(songs))>> \o CatalogEntries(Tail(songs))

\* musicDate.data.findIndex(item => item.id === songId); 0 stands for -1.
FindIdIndex(data, id) ==
    IF \E i \in 1 .. Len(data) : data[i].id = id
    THEN CHOOSE i \in 1 .. Len(data) :
            /\ data[i].id = id
            /\ \A j \in 1 .. i - 1 : data[j].id # id
    ELSE 0

\* The /song/detail handler: for each song of the answer, the title and the
\* artist of the FIRST entry with that id are replaced; every entry with
\* that id gets the cover ('def' for the placeholder picture).
ApplyDetail(data) ==
    [i \in 1 .. Len(data) |->
        LET known == {k \in 1 .. Len(Catalog) : Catalog[k].id = data[i].id}
        IN IF known = {} THEN data[i]
           ELSE LET d == Catalog[CHOOSE k \in known : TRUE]
                    cov == IF d.picUrl = DefaultPic THEN "def" ELSE d.picUrl
                IN IF FindIdIndex(data, d.id) = i
                   THEN [data[i] EXCEPT !.songName = d.name,
                                        !.singerName = d.artist,
                                        !.cover = cov]
                   ELSE [data[i] EXCEPT !.cover = cov]]

\* if (saveId == -1) songInfo.push(musicDate) else songInfo[saveId] = musicDate
UpsertAlwaysPush(list, saveId, musicDate) == Append(list, musicDate)
Upsert(list, saveId, musicDate) ==
    IF saveId = 0 THEN Append(list, musicDate)
    ELSE [list EXCEPT ![saveId] = musicDate]

\* if (!songList[0] || cloudUpdate): getCloudSong fetches the library anew
FetchesLibraryAlways(songList, cloudUpdate) == TRUE
FetchesLibraryOnlyOnUpdate(songList, cloudUpdate) == cloudUpdate
FetchesLibrary(songList, cloudUpdate) == songList = <<>> \/ cloudUpdate

\* The library matches the handler puts first and the /search request it
\* then issues: musicDate.data and searchCount.
AfterLibrary(t, list, kw) ==
    LET matchedSongs == FilterSeq(list, kw)
        songListCount == SongListCount(Len(matchedSongs), songRequestMaxList)
    IN [t EXCEPT !.pc = "search",
                 !.matched = Len(matchedSongs),
                 !.searchCount = SearchCount(songRequestMaxList, songListCount),
                 !.data = SubSeq(matchedSongs, 1, songListCount)]

IdleTask ==
    [pc |-> "idle", group_id |-> "none", songKeyWord |-> <<>>,
     songInfo |-> <<>>, saveId |-> 0, songList |-> <<>>, offset |-> 0,
     matched |-> 0, searchCount |-> 0, data |-> <<>>,
     songs |-> "none", reply |-> "none", wrote |-> FALSE, shown |-> <<>>,
     afterUpload |-> FALSE, afterClean |-> FALSE, found |-> FALSE,
     failed |-> FALSE]

\* history: a cloud upload has stored its track and its command has returned
UploadCompleted == up.pc = "done" /\ up.stored

NoListen == [group_id |-> "none", n |-> 0, after |-> "none"]

SearchIdle ==
    /\ task = [t \in Tasks |-> IdleTask]
    /\ lastWriter = "none"
    /\ listened = NoListen

SearchInit ==
    /\ songInfo = <<>>
    /\ isOverseaFlag = "absent"
    /\ cloudSongList = <<>>
    /\ cacheWriter = "none"
    /\ songRequestMaxList \in 1 .. MaxListSize
    /\ SearchIdle

\* pickSong from its start to the first request that leaves the process:
\* pickApi, redisGetKey(SONGINFO), then getCloudSong's redisGetKey.  With a
\* snapshot the handler filters it and issues /search; without one it issues
\* the first /user/cloud page request.
SearchStart(t, g, kw) ==
    /\ task[t].pc = "idle"
    /\ RegionStep(FetchesLibrary(cloudSongList, FALSE))
    /\ LET begun == [IdleTask EXCEPT !.group_id = g,
                                     !.songKeyWord = kw,
                                     !.songInfo = songInfo,
                                     !.saveId = FindGroupIndex(songInfo, g),
                                     !.songList = cloudSongList,
                                     !.afterUpload = UploadCompleted,
                                     !.afterClean = cacheWriter = "clean",
                                     !.found = cloudSongList # <<>>]
       IN task' = [task EXCEPT ![t] =
                      IF FetchesLibrary(cloudSongList, FALSE)
                      THEN [begun EXCEPT !.pc = "cloud"]
                      ELSE AfterLibrary(begun, cloudSongList, kw)]
    /\ UNCHANGED <<songInfo, cloudSongList, cacheWriter, songRequestMaxList, lastWriter,
                   listened, playVars, waitVars>>
    /\ UNCHANGED cloudVars
    /\ UNCHANGED suffixVars

\* getCloudSong: one /user/cloud page answers (or the request fails and the
\* loop breaks); after the last page the list is persisted and the handler
\* goes on to filter it and to issue /search.
CloudPageResponse(t) ==
    /\ task[t].pc = "cloud"
    /\ \E ok \in BOOLEAN :
          LET page == CloudPage(task[t].offset)
              list == IF ok THEN task[t].songList \o CloudEntries(page.data)
                      ELSE task[t].songList
          IN IF ok /\ page.hasMore
             THEN /\ task' = [task EXCEPT ![t].songList = list,
                                          ![t].offset = @ + CloudPageLimit]
                  /\ UNCHANGED <<cloudSongList, cacheWriter>>
             ELSE /\ cloudSongList' = list
                  /\ cacheWriter' = "fetch"
                  /\ task' = [task EXCEPT ![t] =
                        AfterLibrary([task[t] EXCEPT !.songList = list,
                                                     !.failed = ~ok],
                                     list, task[t].songKeyWord)]
    /\ UNCHANGED <<songInfo, isOverseaFlag, songRequestMaxList, lastWriter,
                   listened, playVars, waitVars>>
    /\ UNCHANGED <<regionVars, cloudVars>>
    /\ UNCHANGED suffixVars

\* The /search answers the catalog can give to a request with limit = n:
\* the request fails (SearchFails), the result has no songs key (SongsAbsent),
\* or it carries the first m <= n ranked songs (m = 0: an empty array).
SearchFails == -2
SongsAbsent == -1
SearchAnswers(kw, n) ==
    {SearchFails, SongsAbsent} \cup
    {m \in 0 .. Len(CatalogMatches(Catalog, kw)) : m <= n}

\* The .then of the /search request: with songs (any array, [] included, is
\* truthy) or with a library match the songs are appended and /song/detail
\* is requested; otherwise 'not found' is replied.
SearchResponse(t) ==
    /\ task[t].pc = "search"
    /\ \E r \in SearchAnswers(task[t].songKeyWord, task[t].searchCount) :
          CASE r = SearchFails ->
                  task' = [task EXCEPT ![t].pc = "rejected", ![t].songs = "fail"]
            [] r = SongsAbsent ->
                  IF task[t].data # <<>>
                  THEN task' = [task EXCEPT ![t].pc = "detail",
                                            ![t].songs = "absent"]
                  ELSE task' = [task EXCEPT ![t].pc = "done",
                                            ![t].songs = "absent",
                                            ![t].reply = "notfound"]
            [] OTHER ->
                  task' = [task EXCEPT
                     ![t].pc = "detail",
                     ![t].songs = IF r = 0 THEN "empty" ELSE "some",
                     ![t].data = @ \o CatalogEntries(
                        SubSeq(CatalogMatches(Catalog, task[t].songKeyWord), 1, r))]
    /\ UNCHANGED <<storeVars, lastWriter, listened, playVars, waitVars>>
    /\ UNCHANGED <<regionVars, cloudVars>>
    /\ UNCHANGED suffixVars

\* The .then of the /song/detail request: titles, artists and covers are
\* corrected, the task's copy of the store gets the conversation's entry and
\* redisSetKey writes that copy.  A failed request rejects the handler.
DetailResponse(t) ==
    /\ task[t].pc = "detail"
    /\ \E ok \in BOOLEAN :
          IF ok
          THEN LET data == ApplyDetail(task[t].data)
                   musicDate == [group_id |-> task[t].group_id, data |-> data]
                   copy == Upsert(task[t].songInfo, task[t].saveId, musicDate)
               IN /\ songInfo' = copy
                  /\ lastWriter' = t
                  /\ task' = [task EXCEPT ![t].pc = "render",
                                          ![t].data = data,
                                          ![t].songInfo = copy,
                                          ![t].wrote = TRUE]
          ELSE /\ task' = [task EXCEPT ![t].pc = "rejected"]
               /\ UNCHANGED <<songInfo, lastWriter>>
    /\ UNCHANGED <<isOverseaFlag, cloudSongList, cacheWriter, songRequestMaxList, listened,
                   playVars, waitVars>>
    /\ UNCHANGED <<regionVars, cloudVars>>
    /\ UNCHANGED suffixVars

\* new PickSongList(e).getData(musicDate.data), the screenshot, e.reply(img).
Display(t) ==
    /\ task[t].pc = "render"
    /\ \E ok \in BOOLEAN :
          IF ok
          THEN task' = [task EXCEPT ![t].pc = "done", ![t].reply = "list",
                                    ![t].shown = task[t].data]
          ELSE task' = [task EXCEPT ![t].pc = "rejected"]
    /\ UNCHANGED <<storeVars, lastWriter, listened, playVars, waitVars>>
    /\ UNCHANGED <<regionVars, cloudVars>>
    /\ UNCHANGED suffixVars

\* The search of conversation g, if any, that has shown its list and whose
\* write is still the store's latest.
ShownAndLatest(g) ==
    IF \E t \in Tasks : /\ lastWriter = t
                        /\ task[t].group_id = g
                        /\ task[t].reply = "list"
    THEN lastWriter ELSE "none"

\* '#tingN' arriving while searches may be in flight: the resolution of
\* pickSong's second branch (one such command per behaviour).
SearchListen ==
    /\ listened = NoListen
    /\ \E g \in Groups, n \in 1 .. MaxListSize :
          /\ ListenResolve(g, n)
          /\ listened' = [group_id |-> g, n |-> n, after |-> ShownAndLatest(g)]
    /\ UNCHANGED <<task, lastWriter, waitVars>>
    /\ UNCHANGED cloudVars
    /\ UNCHANGED suffixVars

\* The tasks are named in the order their commands arrive.
ArrivesInOrder(t) == t = "t2" => task["t1"].pc # "idle"

SearchNext ==
    \/ \E t \in Tasks, g \in Groups, kw \in Keywords :
          ArrivesInOrder(t) /\ SearchStart(t, g, kw)
    \/ \E t \in Tasks : CloudPageResponse(t)
    \/ \E t \in Tasks : SearchResponse(t)
    \/ \E t \in Tasks : DetailResponse(t)
    \/ \E t \in Tasks : Display(t)
    \/ SearchListen

\* Searches next to each other, without a '#tingN' command.
OverlapNext ==
    \/ \E t \in Tasks, g \in Groups, kw \in Keywords :
          ArrivesInOrder(t) /\ SearchStart(t, g, kw)
    \/ \E t \in Tasks : CloudPageResponse(t)
    \/ \E t \in Tasks : SearchResponse(t)
    \/ \E t \in Tasks : DetailResponse(t)
    \/ \E t \in Tasks : Display(t)

(***************************************************************************)
(* Claims about the search and the session store                           *)
(***************************************************************************)
\* A merged list: at most songRequestMaxList entries, and no catalog entry
\* before a library entry.
MergedListOk(data) ==
    /\ Len(data) <= songRequestMaxList
    /\ \A i, j \in 1 .. Len(data) :
          (i < j /\ data[j].duration = CloudMark) => data[i].duration = CloudMark

\* C1: every merged list a search stores and shows - in particular one made
\* of at least one library match and at least one catalog song - has at most
\* songRequestMaxList entries, with every library match before every catalog
\* result.
C1_MergedListBounded ==
    /\ \A k \in 1 .. Len(songInfo) : MergedListOk(songInfo[k].data)
    /\ \A t \in Tasks : MergedListOk(task[t].data) /\ MergedListOk(task[t].shown)

\* A search with a library match and a catalog song stored and showed its
\* list: the library match first, the catalog song last.
C1_Witness ==
    \E t \in Tasks :
        /\ task[t].reply = "list"
        /\ task[t].matched >= 1
        /\ task[t].songs = "some"
        /\ task[t].shown[1].duration = CloudMark
        /\ task[t].shown[Len(task[t].shown)].duration # CloudMark
        /\ \E k \in 1 .. Len(songInfo) : songInfo[k].data = task[t].shown

\* C2: a '#tingN' issued after a search of the same conversation has shown
\* its list, with no later write to the store, resolves, for every N within
\* the list, to the track whose id is at position N of the list shown.
C2_ListenResolvesShown ==
    (listened.after # "none"
        /\ listened.n <= Len(task[listened.after].shown))
    => /\ pc = "probe"
       /\ selectedSong.id = task[listened.after].shown[listened.n].id

\* '#ting2' after the second search of a conversation replaced the entry the
\* first had stored, while another conversation has an entry too.
C2_Witness ==
    /\ listened.after # "none"
    /\ listened.n = 2
    /\ pc = "probe"
    /\ \E t \in Tasks : /\ t # listened.after
                        /\ task[t].wrote
                        /\ task[t].group_id = listened.group_id
                        /\ task[t].shown # task[listened.after].shown

\* C3: a search with no library match to which the catalog returns no songs
\* replies 'not found' and does not write the session store.
C3_NotFoundLeavesStore ==
    \A t \in Tasks :
        (task[t].pc \in {"render", "done", "rejected"}
            /\ task[t].matched = 0
            /\ task[t].songs \in {"absent", "empty"})
        => (task[t].reply = "notfound" /\ ~task[t].wrote)

(***************************************************************************)
(* Claims about the delivery                                               *)
(***************************************************************************)
HasEvent(e) == \E i \in 1 .. Len(events) : events[i] = e
HasCall(what) == \E i \in 1 .. Len(events) : events[i][1] = what
Finished == pc \in {"done", "rejected"}

\* C4: in every delivery whose probe result is false or whose primary URL is
\* null, musicTempApi is used and downloadAudio is attempted afterwards with
\* the URL the fallback produced.
C4_FallbackLaw ==
    (Finished /\ HasCall("song/url")
        /\ (isCkExpired = "false" \/ respUrl = "null"))
    => \E i, j \in 1 .. Len(events) :
          /\ i < j
          /\ events[i][1] = "musicTempApi"
          /\ events[j] = Ev("downloadAudio", url)

\* C5: checkCooike returns true only for a non-empty profile and returns
\* false, never raising, for every other /login/status outcome and for both
\* credential kinds.
C5_ProbeTotal ==
    statusResp # "none" =>
        /\ isCkExpired \in {"true", "false"}
        /\ isCkExpired = "true" <=> statusResp = "profile"

\* C6: the probe, the playback-URL request and the wiki request of one
\* delivery all carry the same credential kind: the library credential if
\* and only if the delivery is a '#tingN' of a library-origin track, the
\* playback credential otherwise ('#bofang' always).
ExpectedCredential ==
    IF cmd = "listen" /\ selectedSong.duration = CloudMark
    THEN "cloud" ELSE "song"

C6_CredentialConsistent ==
    \A i \in 1 .. Len(events) :
        events[i][1] \in {"login/status", "song/url", "song/wiki"}
            => events[i][2] = ExpectedCredential

\* A '#tingN' of a library-origin track that got as far as the wiki request.
C6_Witness ==
    /\ cmd = "listen"
    /\ selectedSong.duration = CloudMark
    /\ HasEvent(Ev("login/status", "cloud"))
    /\ HasEvent(Ev("song/wiki", "cloud"))

\* C7: the music card is attempted first; a raw file (and voice clip) is sent
\* only after the card failed, it is sent whenever the card failed and the
\* download succeeded, the voice clip follows a sent file exactly when voice
\* is enabled and the type is not mp4, nothing is replied to the requester
\* about the card failure, and after a card that succeeded no file or voice
\* clip is sent.
C7_CardThenRawFallback ==
    /\ \A j \in 1 .. Len(events) :
          events[j][1] \in {"uploadGroupFile", "record"}
              => \E i \in 1 .. j - 1 : events[i] = Ev("card", "fail")
    /\ HasEvent(Ev("card", "ok"))
          => ~HasCall("uploadGroupFile") /\ ~HasCall("record")
    /\ (pc = "done" /\ HasEvent(Ev("card", "fail"))
           /\ HasEvent(Ev("downloaded", "ok")))
          => HasCall("uploadGroupFile")
    /\ (pc = "done" /\ HasEvent(Ev("file", "ok")))
          => (HasCall("record") <=> (isSendVocal /\ musicExt # "mp4"))
    /\ \A i, j \in 1 .. Len(events) :
          (i < j /\ events[i][1] = "card") => events[j][1] # "reply"

\* The card failed, the download succeeded, file and voice clip were sent.
C7_Witness ==
    /\ pc = "done"
    /\ HasEvent(Ev("card", "fail"))
    /\ HasEvent(Ev("file", "ok"))
    /\ HasEvent(Ev("voice", "ok"))

\* C8 as stated: after every delivery whose download succeeded the local
\* file is gone, whichever channel delivered.
C8_Original ==
    (pc = "done" /\ HasEvent(Ev("downloaded", "ok"))) => ~fileOnDisk

\* C8 amended: after a delivery whose download succeeded the local file is
\* removed exactly when the raw file / voice fallback ran (whether that
\* transfer succeeded or threw); after a music card that succeeded the file
\* stays on disk.
C8_RemovedIffRawFallback ==
    (pc = "done" /\ HasEvent(Ev("downloaded", "ok")))
        => (fileOnDisk <=> HasEvent(Ev("card", "ok")))

\* The card failed, the download succeeded, the file transfer threw, and
\* the file was removed all the same.
C8_Witness ==
    /\ pc = "done"
    /\ HasEvent(Ev("downloaded", "ok"))
    /\ HasEvent(Ev("card", "fail"))
    /\ HasEvent(Ev("file", "fail"))
    /\ ~fileOnDisk

(***************************************************************************)
(* waitForFile                                                             *)
(***************************************************************************)
\* checkFileExists(path) false: the code sets lastSize = -1.
Absent == -1
\* checkFileExists true but fs.statSync throws (the catch branch).
StatError == -2

Observations == {Absent, StatError} \cup (0 .. MaxFileSize)

\* const requiredStableChecks = 2
requiredStableChecksOne == 2 - 1
requiredStableChecksThree == 2 + 1
requiredStableChecks == 2

\* await new Promise(resolve => setTimeout(resolve, 500)): one poll interval
PollIntervalMs == 500

\* if (currentSize > 0 && currentSize === lastSize)
IsStableReadNoPositive(currentSize, last) == currentSize = last
IsStableRead(currentSize, last) == currentSize > 0 /\ currentSize = last

WaitIdle ==
    /\ timeoutSeconds = 1
    /\ attempts = 0
    /\ lastSize = -1
    /\ stableChecks = 0
    /\ waitResult = "idle"
    /\ observed = <<>>
    /\ waitReplies = 0

WaitInit ==
    /\ timeoutSeconds \in 1 .. MaxTimeoutSeconds
    /\ attempts = 0
    /\ lastSize = -1
    /\ stableChecks = 0
    /\ waitResult = "polling"
    /\ observed = <<>>
    /\ waitReplies = 0

\* One iteration of while (attempts < maxAttempts), maxAttempts = timeoutSeconds.
WaitPoll ==
    /\ waitResult = "polling"
    /\ attempts < timeoutSeconds
    /\ \E o \in Observations :
          /\ observed' = Append(observed, o)
          /\ IF o = Absent \/ o = StatError
             THEN /\ lastSize' = -1
                  /\ stableChecks' = 0
                  /\ attempts' = attempts + 1
                  /\ waitResult' = waitResult
             ELSE LET sc == IF IsStableRead(o, lastSize)
                            THEN stableChecks + 1 ELSE 0
                  IN /\ stableChecks' = sc
                     /\ lastSize' = o
                     /\ IF sc >= requiredStableChecks
                        THEN /\ waitResult' = "true"
                             /\ attempts' = attempts
                        ELSE /\ waitResult' = waitResult
                             /\ attempts' = attempts + 1
    /\ UNCHANGED <<timeoutSeconds, waitReplies, storeVars, searchVars, playVars>>
    /\ UNCHANGED <<regionVars, cloudVars>>
    /\ UNCHANGED suffixVars

\* The loop ends without a return: log, e.reply(timeout message), return false.
WaitTimeout ==
    /\ waitResult = "polling"
    /\ attempts >= timeoutSeconds
    /\ waitResult' = "false"
    /\ waitReplies' = waitReplies + 1
    /\ UNCHANGED <<timeoutSeconds, attempts, lastSize, stableChecks, observed,
                   storeVars, searchVars, playVars>>
    /\ UNCHANGED <<regionVars, cloudVars>>
    /\ UNCHANGED suffixVars

WaitNext == WaitPoll \/ WaitTimeout

(***************************************************************************)
(* The personal library: songCloudUpdate, upLoad, uploadCloud and          *)
(* getLatestDocument.  One upload command runs per behaviour; the refresh  *)
(* it starts without awaiting runs as its own task (UploadRefresher).      *)
(***************************************************************************)
\* waitForFile(path, e): the default timeoutSeconds (120 in the code), scaled.
UploadTimeoutSeconds == 3
\* Further calls retryAxiosReq makes after a failed one.
MaxRetries == 1
\* How many refresh commands are issued one after the other.
MaxRefreshRuns == 2

\* How many full pages the largest library fills.
MaxPages == 2

\* The numbers of earlier uploads that bring the library to exactly k pages
\* and to one track more than k pages (and none: less than a page).
LibrarySizes ==
    {0} \cup {k * CloudPageLimit - Len(RemoteCloud) : k \in 1 .. MaxPages}
        \cup {k * CloudPageLimit - Len(RemoteCloud) + 1 : k \in 1 .. MaxPages}

\* The task of the refresh an upload starts; the other one runs commands only.
UploadRefresher == "r2"
Refreshers == {"r1", UploadRefresher}
CloudSearchers == {"t1"}

\* The tracks whose cards are replied to, and the conversation of the upload.
DeliveryTracks == {1, 3}
UploadGroup == "g1"

\* resp.data.data?.[0]?.type of /song/url/v1 at the configured level
TrackType(id) == IF id = 1 THEN "flac" ELSE "mp4"

\* getCurDownloadPath(e) + '/' + desc + '-' + title + '.' + suffix
FilePath(g, id, suffix) == [group |-> g, id |-> id, ext |-> suffix]

NoPath == FilePath("none", 0, "none")

IdleUpload ==
    [kind |-> "none", pc |-> "idle", tries |-> 0, posts |-> 0, okAt |-> 0,
     stored |-> FALSE, match |-> "none", groupFiles |-> 0, downloads |-> 0,
     renamed |-> FALSE, removes |-> 0, replies |-> 0, path |-> NoPath]

IdleRefresh ==
    [pc |-> "idle", runs |-> 0, songList |-> <<>>, offset |-> 0,
     left |-> <<>>, prev |-> <<>>]

CloudIdle ==
    /\ uploaded = <<>>
    /\ up = IdleUpload
    /\ refresh = [r \in Refreshers |-> IdleRefresh]

\* retryAxiosReq(() => tryUpload()) of ../utils/common.js, after an attempt
\* threw: the upload is run again while retries remain; once they are
\* exhausted the failure is reported to the caller (the promise rejects).
retryAxiosReq(u) ==
    IF u.tries < MaxRetries
    THEN [u EXCEPT !.tries = @ + 1, !.posts = @ + 1, !.pc = "post"]
    ELSE [u EXCEPT !.pc = "rejected"]

\* if (!fileExists) return;
AbortsOnTimeoutNever(fileExists) == FALSE
AbortsOnTimeout(fileExists) == fileExists = "false"

\* catch (error) { logger.error('match error', error) }: not rethrown
MatchFailureRethrownOnError(ok) == ~ok
MatchFailureRethrown(ok) == FALSE

\* this.songCloudUpdate(e), not awaited: the call runs up to its first
\* suspension, which issues cleanCloudData's redisSetKey(CLOUDSONGLIST, []).
SpawnRefresh ==
    /\ cloudSongList' = <<>>
    /\ cacheWriter' = "clean"
    /\ refresh' = [refresh EXCEPT ![UploadRefresher] =
                      [IdleRefresh EXCEPT !.pc = "clean", !.runs = 1]]

\* upLoad / uploadCloud up to the call of waitForFile: getReplyMsg, (pickApi),
\* the id / title / desc extraction from the replied card.  A reply without a
\* title or desc throws; without an id upLoad returns and uploadCloud throws.
UploadStart(kind) ==
    /\ up.pc = "idle"
    /\ IF kind = "uploadCloud" THEN RegionStep(FALSE)
       ELSE UNCHANGED <<isOverseaFlag, regionVars>>
    /\ \E shape \in {"card", "noid", "unparsable"}, id \in DeliveryTracks :
          IF shape = "card"
          THEN /\ up' = [up EXCEPT !.kind = kind, !.pc = "wait",
                           !.path = FilePath(UploadGroup, id, FileSuffix)]
               /\ timeoutSeconds' = UploadTimeoutSeconds
               /\ attempts' = 0
               /\ lastSize' = -1
               /\ stableChecks' = 0
               /\ waitResult' = "polling"
               /\ observed' = <<>>
               /\ waitReplies' = 0
          ELSE /\ up' = [up EXCEPT !.kind = kind,
                           !.pc = IF shape = "noid" /\ kind = "upLoad"
                                  THEN "done" ELSE "rejected"]
               /\ UNCHANGED waitVars
    /\ UNCHANGED <<songInfo, cloudSongList, cacheWriter, songRequestMaxList, searchVars,
                   playVars, uploaded, refresh>>
    /\ UNCHANGED suffixVars

\* waitForFile has returned: on false the command returns; on true upLoad
\* calls uploadGroupFile and uploadCloud issues its first POST /cloud.
UploadAfterWait ==
    /\ up.pc = "wait"
    /\ waitResult \in {"true", "false"}
    /\ up' = IF AbortsOnTimeout(waitResult) THEN [up EXCEPT !.pc = "done"]
             ELSE IF up.kind = "upLoad"
             THEN [up EXCEPT !.pc = "groupfile", !.groupFiles = @ + 1]
             ELSE [up EXCEPT !.pc = "post", !.posts = @ + 1]
    /\ UNCHANGED <<storeVars, searchVars, playVars, waitVars, regionVars,
                   uploaded, refresh>>
    /\ UNCHANGED suffixVars

\* upLoad: uploadGroupFile settles; checkAndRemoveFile follows a success, a
\* failure is caught and logged.
GroupFileResult ==
    /\ up.pc = "groupfile"
    /\ \E ok \in BOOLEAN :
          up' = IF ok THEN [up EXCEPT !.pc = "done", !.removes = @ + 1]
                ELSE [up EXCEPT !.pc = "done"]
    /\ UNCHANGED <<storeVars, searchVars, playVars, waitVars, regionVars,
                   uploaded, refresh>>
    /\ UNCHANGED suffixVars

\* tryUpload's POST /cloud settles.  uploadCloud: code 200 stores the track
\* and the /cloud/match request follows; any other answer throws, and
\* retryAxiosReq decides.  getLatestDocument: any answer starts the refresh
\* and returns; a failed request throws.
PostResponse ==
    /\ up.pc = "post"
    /\ \E r \in {"fail", "code200", "other"} :
          IF r = "fail" \/ (r = "other" /\ up.kind = "uploadCloud")
          THEN /\ up' = retryAxiosReq(up)
               /\ UNCHANGED <<uploaded, cloudSongList, cacheWriter, refresh>>
          ELSE /\ uploaded' = IF r = "code200" THEN Append(uploaded, NewTrack)
                              ELSE uploaded
               /\ IF up.kind = "uploadCloud"
                  THEN /\ up' = [up EXCEPT !.pc = "match", !.stored = TRUE,
                                           !.okAt = up.posts]
                       /\ UNCHANGED <<cloudSongList, cacheWriter, refresh>>
                  ELSE /\ up' = [up EXCEPT !.pc = "remove",
                                           !.stored = (r = "code200"),
                                           !.okAt = up.posts]
                       /\ SpawnRefresh
    /\ UNCHANGED <<songInfo, isOverseaFlag, songRequestMaxList, searchVars,
                   playVars, waitVars, regionVars>>
    /\ UNCHANGED suffixVars

\* uploadCloud: the /cloud/match request settles; its failure is logged.
\* Then songCloudUpdate is started and tryUpload returns res.
MatchResponse ==
    /\ up.pc = "match"
    /\ \E ok \in BOOLEAN :
          LET u == [up EXCEPT !.match = IF ok THEN "ok" ELSE "fail"]
          IN IF MatchFailureRethrown(ok)
             THEN /\ up' = retryAxiosReq(u)
                  /\ UNCHANGED <<cloudSongList, cacheWriter, refresh>>
             ELSE /\ up' = [u EXCEPT !.pc = "remove"]
                  /\ SpawnRefresh
    /\ UNCHANGED <<songInfo, isOverseaFlag, songRequestMaxList, searchVars,
                   playVars, waitVars, regionVars, uploaded>>
    /\ UNCHANGED suffixVars

\* retryAxiosReq has resolved: checkAndRemoveFile, and the command returns.
UploadFinish ==
    /\ up.pc = "remove"
    /\ up' = [up EXCEPT !.pc = "done", !.removes = @ + 1]
    /\ UNCHANGED <<storeVars, searchVars, playVars, waitVars, regionVars,
                   uploaded, refresh>>
    /\ UNCHANGED suffixVars

\* getLatestDocument, the naming check and what follows it: a base name that
\* is not 'artist - title' is answered with the warning; otherwise the tags
\* are written, the file is renamed and the first POST /cloud is issued.
DocumentNamed(u, named) ==
    IF named
    THEN [u EXCEPT !.pc = "post", !.renamed = TRUE, !.posts = @ + 1]
    ELSE [u EXCEPT !.pc = "done", !.replies = @ + 1]

\* getLatestDocument up to its first request: pickApi, getGroupFileUrl; an
\* https path whose file_id does not parse throws; one that is not on disk
\* is downloaded first; a local path goes straight to the naming check.
DocumentStart ==
    /\ up.pc = "idle"
    /\ RegionStep(FALSE)
    /\ \E src \in {"local", "https_have", "https_fetch", "badid"},
          named \in BOOLEAN :
          LET u == [up EXCEPT !.kind = "getLatestDocument"]
          IN up' = CASE src = "badid" -> [u EXCEPT !.pc = "rejected"]
                     [] src = "https_fetch" ->
                            [u EXCEPT !.pc = "docdl", !.downloads = @ + 1]
                     [] OTHER -> DocumentNamed(u, named)
    /\ UNCHANGED <<songInfo, cloudSongList, cacheWriter, songRequestMaxList, searchVars,
                   playVars, waitVars, uploaded, refresh>>
    /\ UNCHANGED suffixVars

\* getLatestDocument: downloadAudio settles; a failure rejects the command.
DocumentDownloaded ==
    /\ up.pc = "docdl"
    /\ \E ok \in BOOLEAN, named \in BOOLEAN :
          up' = IF ok THEN DocumentNamed(up, named)
                ELSE [up EXCEPT !.pc = "rejected"]
    /\ UNCHANGED <<storeVars, searchVars, playVars, waitVars, regionVars,
                   uploaded, refresh>>
    /\ UNCHANGED suffixVars

\* The refresh command: songCloudUpdate up to cleanCloudData's redisSetKey.
RefreshCommand(r) ==
    /\ refresh[r].pc \in {"idle", "done"}
    /\ refresh[r].runs < MaxRefreshRuns
    /\ cloudSongList' = <<>>
    /\ cacheWriter' = "clean"
    /\ refresh' = [refresh EXCEPT ![r] =
                      [IdleRefresh EXCEPT !.pc = "clean",
                                          !.runs = refresh[r].runs + 1,
                                          !.prev = refresh[r].left]]
    /\ UNCHANGED <<songInfo, isOverseaFlag, songRequestMaxList, searchVars,
                   playVars, waitVars, regionVars, uploaded, up>>
    /\ UNCHANGED suffixVars

\* getCloudSong(e, true): redisGetKey(CLOUDSONGLIST) || [], pickApi, and the
\* first /user/cloud page request (cloudUpdate forces the fetch).
RefreshRead(r) ==
    /\ refresh[r].pc = "clean"
    /\ RegionStep(FALSE)
    /\ refresh' = [refresh EXCEPT ![r].pc = "page",
                                  ![r].songList = cloudSongList,
                                  ![r].offset = 0]
    /\ UNCHANGED <<songInfo, cloudSongList, cacheWriter, songRequestMaxList, searchVars,
                   playVars, waitVars, uploaded, up>>
    /\ UNCHANGED suffixVars

\* getCloudSong's loop: a page answers and is pushed; after the last page,
\* or after a failed request (catch: break), the list is persisted.  Then
\* e?.reply('updated') (a throw is caught) and myCloud: pickApi and GET
\* /user/cloud, whose answer is replied (a failure is caught and logged).
RefreshPage(r) ==
    /\ refresh[r].pc = "page"
    /\ \E ok \in BOOLEAN :
          LET page == CloudPage(refresh[r].offset)
              list == IF ok THEN refresh[r].songList \o CloudEntries(page.data)
                      ELSE refresh[r].songList
          IN IF ok /\ page.hasMore
             THEN /\ refresh' = [refresh EXCEPT ![r].songList = list,
                                                ![r].offset = @ + CloudPageLimit]
                  /\ UNCHANGED <<cloudSongList, cacheWriter, isOverseaFlag, regionVars>>
             ELSE /\ cloudSongList' = list
                  /\ cacheWriter' = "fetch"
                  /\ refresh' = [refresh EXCEPT ![r].songList = list,
                                                ![r].left = list,
                                                ![r].pc = "done"]
                  /\ RegionStep(FALSE)
    /\ UNCHANGED <<songInfo, songRequestMaxList, searchVars, playVars, waitVars,
                   uploaded, up>>
    /\ UNCHANGED suffixVars

(***************************************************************************)
(* Deliveries next to each other: neteasePlay as far as the module-level   *)
(* FileSuffix and the download directory are concerned.                    *)
(***************************************************************************)
Deliveries == {"d1", "d2"}

IdleDelivery ==
    [pc |-> "idle", group |-> "none", id |-> 0, musicExt |-> "unset",
     cardSentSuccessfully |-> FALSE]

SuffixIdle ==
    /\ delivery = [d \in Deliveries |-> IdleDelivery]
    /\ disk = {}

\* neteasePlay is called for a track of a conversation: /song/url/v1, the
\* wiki request and the announcement are awaited.
DeliveryStart(d, g, id) ==
    /\ delivery[d].pc = "idle"
    /\ delivery' = [delivery EXCEPT ![d] =
                       [IdleDelivery EXCEPT !.pc = "announced", !.group = g,
                                            !.id = id]]
    /\ UNCHANGED <<storeVars, searchVars, playVars, waitVars, regionVars,
                   cloudVars, disk>>

\* let musicExt = resp.data.data?.[0]?.type; FileSuffix = musicExt; then
\* sendMusicCard is called.
DeliverySuffix(d) ==
    /\ delivery[d].pc = "announced"
    /\ FileSuffix' = TrackType(delivery[d].id)
    /\ delivery' = [delivery EXCEPT ![d].pc = "card",
                                    ![d].musicExt = TrackType(delivery[d].id)]
    /\ UNCHANGED <<storeVars, searchVars, isSendVocal, pc, cmd, selectedSong,
                   cookieType, statusResp, isCkExpired, cookieToUse, respUrl,
                   url, musicExt, AudioLevel, cardSentSuccessfully, fileOnDisk, events,
                   waitVars, regionVars, cloudVars, disk>>

\* sendMusicCard settles; downloadAudio is called.
DeliveryCard(d) ==
    /\ delivery[d].pc = "card"
    /\ \E ok \in BOOLEAN :
          delivery' = [delivery EXCEPT ![d].pc = "download",
                                       ![d].cardSentSuccessfully = ok]
    /\ UNCHANGED <<storeVars, searchVars, playVars, waitVars, regionVars,
                   cloudVars, disk>>

\* downloadAudio settles: after a card that was sent the file stays in the
\* conversation's directory; after one that failed the file is sent and
\* removed (finally).
DeliveryDownloaded(d) ==
    /\ delivery[d].pc = "download"
    /\ \E ok \in BOOLEAN :
          disk' = IF ok /\ ~SendsRawFile(delivery[d].cardSentSuccessfully)
                  THEN disk \cup {FilePath(delivery[d].group, delivery[d].id,
                                           delivery[d].musicExt)}
                  ELSE disk
    /\ delivery' = [delivery EXCEPT ![d].pc = "done"]
    /\ UNCHANGED <<storeVars, searchVars, playVars, waitVars, regionVars,
                   cloudVars>>

\* Deliveries in two conversations and an upload command.
SuffixNext ==
    \/ \E d \in Deliveries, g \in Groups, id \in DeliveryTracks :
          DeliveryStart(d, g, id)
    \/ \E d \in Deliveries : DeliverySuffix(d)
    \/ \E d \in Deliveries : DeliveryCard(d)
    \/ \E d \in Deliveries : DeliveryDownloaded(d)
    \/ \E kind \in {"upLoad", "uploadCloud"} : UploadStart(kind)

\* cleanCloudData as a command: redisSetKey(REDIS_YUNZAI_CLOUDSONGLIST, [])
CleanCommand ==
    /\ cloudSongList' = <<>>
    /\ cacheWriter' = "clean"
    /\ UNCHANGED <<songInfo, isOverseaFlag, songRequestMaxList, searchVars,
                   playVars, waitVars, regionVars, cloudVars>>
    /\ UNCHANGED suffixVars

\* An upload command with the refresh it starts, next to a search.
UploadNext ==
    \/ \E kind \in {"upLoad", "uploadCloud"} : UploadStart(kind)
    \/ WaitPoll
    \/ WaitTimeout
    \/ UploadAfterWait
    \/ GroupFileResult
    \/ PostResponse
    \/ MatchResponse
    \/ UploadFinish
    \/ DocumentStart
    \/ DocumentDownloaded
    \/ \E r \in Refreshers : RefreshRead(r)
    \/ \E r \in Refreshers : RefreshPage(r)
    \/ \E t \in CloudSearchers : SearchStart(t, "g1", <<"a">>)
    \/ \E t \in CloudSearchers : CloudPageResponse(t)

\* Refresh commands, one after the other or overlapping, next to a search.
RefreshNext ==
    \/ \E r \in Refreshers : RefreshCommand(r)
    \/ \E r \in Refreshers : RefreshRead(r)
    \/ \E r \in Refreshers : RefreshPage(r)
    \/ \E t \in CloudSearchers : SearchStart(t, "g1", <<"a">>)
    \/ \E t \in CloudSearchers : CloudPageResponse(t)

\* The refresher and the search of the paginated fetch.
FetchRefreshers == {"r1"}

\* The cache cleared, refreshed and lazily filled over a library of several
\* pages.
FetchNext ==
    \/ CleanCommand
    \/ \E r \in FetchRefreshers : RefreshCommand(r)
    \/ \E r \in FetchRefreshers : RefreshRead(r)
    \/ \E r \in FetchRefreshers : RefreshPage(r)
    \/ \E t \in CloudSearchers : SearchStart(t, "g1", <<"a">>)
    \/ \E t \in CloudSearchers : CloudPageResponse(t)

StoreIdle ==
    /\ songInfo = <<>>
    /\ isOverseaFlag = "absent"
    /\ cloudSongList = <<>>
    /\ cacheWriter = "none"
    /\ songRequestMaxList = MaxListSize

InitWait ==
    WaitInit /\ PlayIdle /\ StoreIdle /\ SearchIdle /\ RegionIdle /\ CloudIdle
        /\ SuffixIdle

SpecWait == InitWait /\ [][WaitNext]_vars

InitPlay == PlayInit /\ WaitIdle /\ SearchIdle /\ RegionIdle /\ CloudIdle
        /\ SuffixIdle

SpecPlay == InitPlay /\ [][PlayNext]_vars

InitSearch == SearchInit /\ PlayIdle /\ WaitIdle /\ RegionIdle /\ CloudIdle
        /\ SuffixIdle

SpecSearch == InitSearch /\ [][SearchNext]_vars

InitOverlap == InitSearch

SpecOverlap == InitOverlap /\ [][OverlapNext]_vars

\* The cache as an earlier use left it (empty, or the library's snapshot),
\* the region flag absent or as stored earlier, either configuration of the
\* self-hosted API.
InitCloud ==
    /\ songInfo = <<>>
    /\ isOverseaFlag \in {"absent", "false", "true"}
    /\ cloudSongList \in {<<>>, CloudEntries(RemoteCloud)}
    /\ cloudSongList # <<>> => isOverseaFlag # "absent"
    /\ cacheWriter = "none"
    /\ songRequestMaxList = MaxListSize
    /\ useLocalNeteaseAPI \in BOOLEAN
    /\ apiFirst = NoCall
    /\ apiLast = NoCall
    /\ CloudIdle
    /\ SearchIdle
    /\ PlayIdle
    /\ WaitIdle
    /\ SuffixIdle

SpecUpload == InitCloud /\ [][UploadNext]_vars

InitRefresh == InitCloud

SpecRefresh == InitRefresh /\ [][RefreshNext]_vars

InitSuffix ==
    StoreIdle /\ SearchIdle /\ PlayIdle /\ WaitIdle /\ RegionIdle /\ CloudIdle
        /\ SuffixIdle

SpecSuffix == InitSuffix /\ [][SuffixNext]_vars

\* Libraries of less than a page, of exactly k pages and of one track more,
\* with the cache empty or holding the snapshot of the library.
InitFetch ==
    /\ songInfo = <<>>
    /\ isOverseaFlag = "false"
    /\ uploaded \in {BulkTracks(n) : n \in LibrarySizes}
    /\ cloudSongList \in {<<>>, CloudEntries(Library)}
    /\ cacheWriter = "none"
    /\ songRequestMaxList = MaxListSize
    /\ useLocalNeteaseAPI = FALSE
    /\ apiFirst = NoCall
    /\ apiLast = NoCall
    /\ up = IdleUpload
    /\ refresh = [r \in Refreshers |-> IdleRefresh]
    /\ SearchIdle
    /\ PlayIdle
    /\ WaitIdle
    /\ SuffixIdle

SpecFetch == InitFetch /\ [][FetchNext]_vars

(***************************************************************************)
(* Claims about waitForFile                                                *)
(***************************************************************************)
\* observed[i] and observed[i+1] are the same positive size.
EqualPositiveAt(i) ==
    /\ i >= 1 /\ i + 1 <= Len(observed)
    /\ observed[i] > 0
    /\ observed[i] = observed[i + 1]

\* C9: waitForFile returns true only if the two most recent observations both
\* found the file present with the same size, greater than zero (never for an
\* absent file, a size of zero, or a size that changed between the last polls).
C9_TrueOnlyIfLastTwoStable ==
    waitResult = "true" =>
        /\ Len(observed) >= 2
        /\ EqualPositiveAt(Len(observed) - 1)

\* A call that returned true after the file had been absent and had grown.
C9_Witness ==
    /\ waitResult = "true"
    /\ observed[1] = Absent
    /\ \E i \in 1 .. Len(observed) - 1 :
          observed[i] > 0 /\ observed[i + 1] > observed[i]

\* C10 as stated: a finished call returned true exactly when two consecutive
\* observations were equal and positive.
C10_Original ==
    waitResult # "polling" =>
        (waitResult = "true" <=> \E i \in 1 .. Len(observed) : EqualPositiveAt(i))

\* C10 amended: the watcher returns true exactly when, within timeoutSeconds
\* polls, three consecutive observations (two consecutive stable checks) show
\* the same positive size, and it returns at the poll that completes them;
\* otherwise it polls timeoutSeconds times and returns false.
ThreeStableAt(i) == EqualPositiveAt(i) /\ EqualPositiveAt(i + 1)

C10_TrueIffThreeStable ==
    /\ (\E i \in 1 .. Len(observed) : ThreeStableAt(i)) <=> waitResult = "true"
    /\ waitResult = "true" => ThreeStableAt(Len(observed) - 2)
    /\ waitResult = "false" => Len(observed) = timeoutSeconds

\* Two successive polls agreed on a positive size, the next one differed, and
\* the call returned true only later, at the third equal observation.
C10_Witness ==
    /\ waitResult = "true"
    /\ \E i \in 1 .. Len(observed) - 3 : EqualPositiveAt(i) /\ ~ThreeStableAt(i)

\* The file has stopped at a positive size by poll k: every observation from
\* the k-th on shows that size.
StoppedAt(k) ==
    /\ k >= 1 /\ k <= Len(observed)
    /\ observed[k] > 0
    /\ \A j \in k .. Len(observed) : observed[j] = observed[k]

C12_TimeoutAfterTwicePolls ==
    (/\ waitResult = "false"
     /\ \A i \in 1 .. Len(observed) : observed[i] = Absent)
    => /\ Len(observed) = 2 * timeoutSeconds
       /\ attempts * PollIntervalMs = timeoutSeconds * 1000

(***************************************************************************)
(* Claims about the upload commands, the region flag and the library cache *)
(***************************************************************************)
\* C13: when waitForFile times out in upLoad or uploadCloud, no upload request
\* of any kind is issued for that command (no group-file upload, no POST
\* /cloud, hence no refresh), the file is not deleted, and the requester gets
\* exactly one message: the watcher's timeout reply.
C13_TimeoutAbortsUpload ==
    (up.kind \in {"upLoad", "uploadCloud"} /\ waitResult = "false")
    => /\ up.pc \in {"wait", "done"}
       /\ up.groupFiles = 0
       /\ up.posts = 0
       /\ up.removes = 0
       /\ uploaded = <<>>
       /\ refresh[UploadRefresher].pc = "idle"
       /\ waitReplies = 1
       /\ up.replies = 0

\* A cloud upload that gave up on a file still being written.
C13_Witness ==
    /\ up.kind = "uploadCloud"
    /\ up.pc = "done"
    /\ waitResult = "false"
    /\ \E i \in 1 .. Len(observed) : observed[i] > 0

\* C14: with no operator override, the first region-dependent call made while
\* no flag is persisted treats the deployment as overseas and persists that
\* same decision, so that every later call yields the same region and the
\* same base URL as the first call did.
C14_FirstDecisionPersisted ==
    (apiFirst.found = "absent" /\ ~useLocalNeteaseAPI)
    => /\ apiFirst.oversea = "true"
       /\ isOverseaFlag = apiFirst.oversea
       /\ apiLast.oversea = apiFirst.oversea
       /\ apiLast.url = apiFirst.url

\* C15: whenever useLocalNeteaseAPI is set, pickApi returns the configured
\* neteaseCloudAPIServer in every state of the flag (absent, overseas,
\* domestic); and the flag is written only by a call that found none
\* persisted: a call that found a flag leaves it as it was.
C15_LocalWinsAndFlagWrittenOnce ==
    /\ useLocalNeteaseAPI =>
          /\ apiFirst # NoCall => apiFirst.url = "neteaseCloudAPIServer"
          /\ apiLast # NoCall => apiLast.url = "neteaseCloudAPIServer"
    /\ apiFirst.wrote => apiFirst.found = "absent"
    /\ apiLast.wrote => apiLast.found = "absent"
    /\ (apiLast # NoCall /\ apiLast.found # "absent")
          => isOverseaFlag = apiLast.found

\* With the self-hosted API configured: a first call that found no flag and
\* wrote it, and a later call that found the flag and did not write.
C15_Witness ==
    /\ useLocalNeteaseAPI
    /\ apiFirst.found = "absent" /\ apiFirst.wrote
    /\ apiLast.found = "false" /\ ~apiLast.wrote
    /\ apiLast.url = "neteaseCloudAPIServer"

\* C16: a transport or parse failure of the catalog search or of the detail
\* lookup is recovered inside the command: the handler does not reject
\* because of it (the only step left that can fail is the rendering after
\* the store was written), and when there is then no candidate at all the
\* requester gets the 'not found' message.
C16_LookupFailureRecovered ==
    \A t \in Tasks :
        /\ task[t].pc = "rejected" => task[t].wrote
        /\ (task[t].songs = "fail" /\ task[t].data = <<>>)
              => task[t].reply = "notfound"

\* C17: in uploadCloud, when POST /cloud answered code 200 and /cloud/match
\* then failed, the attempt still returns success: no further POST is made
\* (the file is stored exactly once), the refresh is started, and the command
\* goes on to its end without rejecting or reporting a failure.
C17_MatchFailureNotRetried ==
    (up.kind = "uploadCloud" /\ up.match = "fail")
    => /\ up.pc \in {"remove", "done"}
       /\ up.stored
       /\ up.posts = up.okAt
       /\ Len(uploaded) = 1
       /\ refresh[UploadRefresher].pc # "idle"
       /\ up.replies = 0

\* An upload whose first POST failed, whose retry was stored, whose match
\* call failed, and which ended normally.
C17_Witness ==
    /\ up.kind = "uploadCloud"
    /\ up.match = "fail"
    /\ up.tries = 1
    /\ up.pc = "done"
    /\ up.removes = 1

\* C18: in uploadCloud and getLatestDocument the local temp file is removed at
\* the end of the command on every outcome of the retried upload, also when
\* every attempt failed.
C18_TempFileAlwaysRemoved ==
    (/\ up.kind \in {"uploadCloud", "getLatestDocument"}
     /\ up.posts >= 1
     /\ up.pc \in {"done", "rejected"})
    => up.removes = 1

\* C19: after a successful cloud upload, every search that starts after the
\* upload command has completed reads a library snapshot that contains the
\* newly uploaded track.
C19_SearchAfterUploadSeesTrack ==
    \A t \in Tasks :
        (task[t].afterUpload /\ task[t].pc = "search")
        => \E i \in 1 .. Len(task[t].songList) :
              task[t].songList[i].id = NewTrack.songId

\* C20: two refresh commands run one after the other, with the remote library
\* unchanged and no other task running, leave the same persisted snapshot
\* after the second run as after the first.
C20_RefreshIdempotent ==
    \A r \in Refreshers :
        (/\ refresh[r].runs = 2
         /\ refresh[r].pc = "done"
         /\ \A q \in Refreshers \ {r} : refresh[q].pc = "idle"
         /\ \A t \in Tasks : task[t].pc = "idle"
         /\ uploaded = <<>>)
        => cloudSongList = refresh[r].prev

(***************************************************************************)
(* Claims about the library cache                                          *)
(***************************************************************************)
\* The entries of the first k pages of the library.
FirstPages(k) ==
    CloudEntries(SubSeq(Library, 1,
        IF k * CloudPageLimit < Len(Library) THEN k * CloudPageLimit
        ELSE Len(Library)))

C22_BadNameRejectedBeforeNetwork ==
    (up.kind = "getLatestDocument" /\ up.replies = 1)
    => /\ up.downloads = 0
       /\ up.posts = 0
       /\ ~up.renamed
       /\ up.removes = 0
       /\ refresh[UploadRefresher].pc = "idle"

(***************************************************************************)
(* Claims about the order and the failures of a delivery                   *)
(***************************************************************************)
\* The place of a request or host call in neteasePlay's text.
CodeStage(what) ==
    CASE what = "song/url" -> 1
      [] what = "song/wiki" -> 2
      [] what = "musicTempApi" -> 3
      [] what = "render" -> 4
      [] what = "reply" -> 5
      [] what = "sendMusicCard" -> 6
      [] what = "card" -> 7
      [] what = "downloadAudio" -> 8
      [] what = "downloaded" -> 9
      [] what = "uploadGroupFile" -> 10
      [] what = "file" -> 11
      [] what = "record" -> 12
      [] what = "voice" -> 13
      [] OTHER -> 0

\* The events of the delivery: from the playback-URL request on.
DeliveryEvents ==
    {i \in 1 .. Len(events) :
        \E d \in 1 .. i : events[d][1] = "song/url"}

\* call comes only after an earlier event of the kind before.
Preceded(call, before) ==
    \A j \in 1 .. Len(events) :
       events[j][1] = call => \E i \in 1 .. j - 1 : events[i][1] = before

\* C23 as stated: no delivery channel (music card, file, voice clip) is
\* attempted before DOWNLOAD has completed.
C23_Original ==
    /\ Preceded("sendMusicCard", "downloaded")
    /\ Preceded("uploadGroupFile", "downloaded")
    /\ Preceded("record", "downloaded")

\* C23 amended: the steps of a delivery are started in the order
\* playback-URL request, wiki request, fallback resolver (when not entitled
\* or without a URL), announcement, music-card attempt, download, and, when
\* the card failed, file transfer and voice clip; the card is attempted
\* before the download is started, file and voice clip only after it has
\* completed; an awaited step starts only after the step before has settled.
C23_StagesInCodeOrder ==
    /\ \A i, j \in DeliveryEvents :
          i < j => CodeStage(events[i][1]) < CodeStage(events[j][1])
    /\ \A i \in DeliveryEvents : CodeStage(events[i][1]) > 0
    /\ Preceded("song/wiki", "song/url")
    /\ Preceded("musicTempApi", "song/wiki")
    /\ Preceded("render", "song/wiki")
    /\ Preceded("sendMusicCard", "reply")
    /\ Preceded("downloadAudio", "card")
    /\ \A j \in 1 .. Len(events) :
          events[j][1] = "uploadGroupFile"
             => /\ \E i \in 1 .. j - 1 : events[i] = Ev("downloaded", "ok")
                /\ \E i \in 1 .. j - 1 : events[i] = Ev("card", "fail")
    /\ \A j \in 1 .. Len(events) :
          events[j][1] = "record"
             => \E i \in 1 .. j - 1 : events[i] = Ev("file", "ok")

\* A delivery through the fallback resolver whose card failed: announcement,
\* card attempt, download, file and voice clip, in that order.
C23_Witness ==
    /\ pc = "done"
    /\ HasCall("musicTempApi")
    /\ HasEvent(Ev("card", "fail"))
    /\ HasEvent(Ev("downloaded", "ok"))
    /\ HasEvent(Ev("file", "ok"))
    /\ HasEvent(Ev("voice", "ok"))

\* C24: the suffix of the path an upload waits for is the suffix with which
\* the replied track was downloaded in that conversation, whatever other
\* deliveries ran in between.
C24_UploadPathKeepsSuffix ==
    (/\ up.path # NoPath
     /\ FilePath(up.path.group, up.path.id, TrackType(up.path.id)) \in disk)
    => up.path.ext = TrackType(up.path.id)

(***************************************************************************)
(* Claims about overlapping searches                                       *)
(***************************************************************************)
NoSession == [group_id |-> "none", data |-> <<>>]

\* The stored SearchSession of a conversation.
SessionOf(list, g) ==
    IF FindGroupIndex(list, g) = 0 THEN NoSession
    ELSE list[FindGroupIndex(list, g)]

\* Task t persists the store in this step.
Persists(t) == task[t].pc = "detail" /\ task'[t].pc = "render"

\* C25: a search in one conversation never removes or alters the stored
\* SearchSession of another conversation.
C25_OtherSessionsUntouched ==
    [][\A t \in Tasks, g \in Groups :
          (Persists(t) /\ g # task[t].group_id)
             => SessionOf(songInfo', g) = SessionOf(songInfo, g)]_vars

\* C26: when searches of one conversation overlap, the store never holds
\* two entries with that group_id, and once they have finished its entry
\* is the complete merged list of the search that wrote last, never a
\* mixture of the lists.
C26_LastWriterWinsWhole ==
    /\ \A i, j \in 1 .. Len(songInfo) :
          songInfo[i].group_id = songInfo[j].group_id => i = j
    /\ \A t \in Tasks :
          (/\ lastWriter = t
           /\ \A o \in Tasks :
                 /\ task[o].group_id = task[t].group_id
                 /\ task[o].pc \in {"done", "rejected", "render"})
          => SessionOf(songInfo, task[t].group_id) =
                [group_id |-> task[t].group_id, data |-> task[t].data]

\* Two searches of one conversation that both started before either wrote,
\* with different lists; both have finished and the later list is stored.
C26_Witness ==
    \E t, o \in Tasks :
       /\ t # o
       /\ task[t].group_id = task[o].group_id
       /\ task[t].pc = "done" /\ task[o].pc = "done"
       /\ task[t].wrote /\ task[o].wrote
       /\ task[t].saveId = 0 /\ task[o].saveId = 0
       /\ task[t].data # task[o].data
       /\ task[o].data # <<>>
       /\ lastWriter = t
       /\ songInfo = <<[group_id |-> task[t].group_id, data |-> task[t].data]>>

(***************************************************************************)
(* Claims about the persisted library snapshot                             *)
(***************************************************************************)
\* C27: under any interleaving of refreshes and of searches that fill the
\* cache, the persisted snapshot never lists a remote track twice.
C27_SnapshotDuplicateFree ==
    \A i, j \in 1 .. Len(cloudSongList) :
       cloudSongList[i].id = cloudSongList[j].id => i = j

\* C28: a snapshot getCloudSong persisted after a refresh or a first use
\* contains every track of the remote library; one that misses pages is
\* never persisted.
C28_PersistedSnapshotComplete ==
    cacheWriter = "fetch"
    => \A k \in 1 .. Len(Library) :
          \E i \in 1 .. Len(cloudSongList) :
             cloudSongList[i].id = Library[k].songId

\* Task t takes a step of its handler.
Steps(t) == task'[t] # task[t]

\* C29: a search that finds a non-empty persisted snapshot leaves it as it
\* is: neither the filter, the merge nor the title / artist correction of
\* library entries of the merged list changes what is persisted.
C29_SearchLeavesSnapshot ==
    [][\A t \in Tasks :
          (/\ Steps(t)
           /\ task'[t].found
           /\ \A o \in Tasks : o # t => ~Steps(o))
             => cloudSongList' = cloudSongList]_vars

\* A search that found the snapshot has finished; the detail lookup
\* corrected the title of a library entry of its list, and the snapshot
\* still carries the title the library gave.
C29_Witness ==
    \E t \in Tasks :
       /\ task[t].pc = "done"
       /\ task[t].found
       /\ cloudSongList = CloudEntries(Library)
       /\ \E i \in 1 .. Len(task[t].data), k \in 1 .. Len(cloudSongList) :
             /\ task[t].data[i].duration = CloudMark
             /\ task[t].data[i].id = cloudSongList[k].id
             /\ task[t].data[i].songName # cloudSongList[k].songName

\* C30: every failure inside a delivery is handled within the delivery:
\* once neteasePlay has issued its playback-URL request, no rejection
\* escapes unhandled from it or from the handler that started it.
C30_NoUnhandledRejection ==
    HasCall("song/url") => pc # "rejected"

\* The delivery was rejected while the request or call `what` was the last
\* thing it had issued.
AbortedAt(what) ==
    /\ pc = "rejected"
    /\ events # <<>>
    /\ events[Len(events)][1] = what

\* C31: a /song/wiki/summary payload shallower than expected, or a failed
\* wiki request, does not abort the delivery: the announcement and the
\* download still follow.
C31_WikiTolerated ==
    ~AbortedAt("song/wiki")

\* C32: when the fallback resolver fails (request error, or no music_url in
\* the answer) the delivery is not aborted at the resolver: it goes on to
\* downloadAudio with the URL it has, and the failure shows as a failed
\* download.
C32_FallbackFailureReachesDownload ==
    /\ ~AbortedAt("musicTempApi")
    /\ ~(url = "undefined" /\ HasEvent(Ev("downloaded", "ok")))

\* C33: on the direct path the quality label of the announced card carries
\* the codec caveat when the tier is Dolby Atmos, and is the plain translated
\* tier name for every other tier.
C33_DolbyLabelHasCaveat ==
    \A i \in 2 .. Len(events) :
       (events[i][1] = "reply" /\ events[i - 1] = Ev("render", "direct"))
          => events[i][2] = audioInfo(AudioLevel)

====
